---- MODULE Spec2Model ----
(***************************************************************************)
(* Chumby8TSCal: the touchscreen calibration window.                       *)
(*                                                                         *)
(* The model follows src/calibrationwindow.cpp: the raw event reader       *)
(* (readRawEvents), the calibration state machine (handleTouchUpdate) with *)
(* its sample window, averaging, bound extrapolation and validation, and   *)
(* the final commit through CalibrationUtils::saveNewCalibration and       *)
(* CalibrationUtils::applyCalibration (src/calibrationutils.cpp).          *)
(*                                                                         *)
(* Arithmetic.  The source computes the averages and the extrapolated      *)
(* bounds in single precision and stores the bounds in int fields, which   *)
(* truncates toward zero.  The model computes the same expressions over    *)
(* exact rationals (records [n, d]) and truncates the same way.  For the   *)
(* screen modelled here (ScreenW x ScreenH) and raw values in              *)
(* 0..RAW_TOUCHSCREEN_RANGE the truncated single precision results and the *)
(* truncated exact results are the same integers for every pair of edge    *)
(* averages, and qRound(float(sum)/float(count)) is floor((2 sum + count)  *)
(* / (2 count)) for every count in 1..MAX_AVG_POINTS.                      *)
(***************************************************************************)
EXTENDS Integers, Sequences, FiniteSets, TLC

(***************************************************************************)
(* Program constants.                                                      *)
(***************************************************************************)
CROSSHAIR_OFFSET == 20
NUM_CAL_POINTS == 4
MAX_AVG_POINTS == 5
RAW_TOUCHSCREEN_RANGE == 4095
\* qApp->screens().at(0)->size(): the screen of the end-to-end scenario.
ScreenW == 1024
ScreenH == 784

(***************************************************************************)
(* Bounds of the model.                                                    *)
(***************************************************************************)
\* Samples (SYN_REPORT records) delivered in one session.
MaxSamples == 12
\* Samples delivered within one Point phase (one tap) under Spec.
MaxTapSamples == 3
\* Samples delivered in one session under SpecWindow.
MaxWindowSamples == 6

(***************************************************************************)
(* Inputs: the values the device reports on each axis.                     *)
(***************************************************************************)
RawXVals == {0, 40}
RawYVals == {0, 30}
\* Under SpecWindow the Y axis starts at 0 and then reports WindowYVals.
WindowYVals == {30}
\* Under SpecCorners the user taps the crosshair shown: the positions the
\* device reports at the left, right, top and bottom crosshairs.
LeftXVals == {79, 100, 500, 3600}
RightXVals == {3500, 3990, 4000}
TopYVals == {100}
BottomYVals == {3800, 3990}

VARIABLES
    calibrationFd,      \* _calibrationFd: descriptor of the touchscreen, -1 if not found
    timerArmed,         \* QTimer::singleShot(5000, qApp, quit) is pending
    label,              \* _instructionsLabel text
    curCalPoint,        \* _curCalPoint
    tmpPressed,         \* _tmpPressed
    tmpXY,              \* _tmpXY
    touchIsPressed,     \* _touchIsPressed
    points,             \* _points: the sample window
    calibrationPoints,  \* _calibrationPoints
    cal,                \* _minXCal, _maxXCal, _minYCal, _maxYCal
    reading,            \* control is inside the do/while of readRawEvents
    exitRequested,      \* qApp->exit() / QApplication::quit was called
    calFile,            \* CALIBRATION_FILE on disk
    deviceMatrix,       \* the calibration matrix property of the X input device
    saveCalls,          \* arguments of the calls of saveNewCalibration so far
    applyCalls,         \* arguments of the calls of applyCalibration so far
    crashed,            \* the process was killed by a trap
    xErrorOccurred,     \* static volatile int xErrorOccurred
    errorHandler,       \* the error handler installed in Xlib
    xcall,              \* the invocation of applyCalibration under way, if any
    main,               \* main(): its position, argv[1] and what it did so far
    find,               \* the invocation of findTouchScreen and the descriptor table
    nSamples            \* calls of handleTouchUpdate (samples delivered) so far

vars == <<calibrationFd, timerArmed, label, curCalPoint, tmpPressed, tmpXY,
          touchIsPressed, points, calibrationPoints, cal, reading,
          exitRequested, calFile, deviceMatrix, saveCalls,
          applyCalls, crashed, xErrorOccurred, errorHandler, xcall, main,
          find, nSamples>>

\* The state handleTouchUpdate owns.
machine == <<label, curCalPoint, touchIsPressed, points, calibrationPoints, cal>>
\* What the final commit reaches outside the window.
backend == <<calFile, deviceMatrix, saveCalls, applyCalls,
             xErrorOccurred, errorHandler, xcall>>

(***************************************************************************)
(* Labels.                                                                 *)
(***************************************************************************)
LblInstructions == "To calibrate the touchscreen, tap each crosshair point that appears."
LblNoDevice == "Unable to find touchscreen."
LblCalError == "Calibration error. Tap the screen to quit."
LblComplete == "Calibration complete. Tap the screen to apply and save."
LblSaveError == "Error saving calibration. Tap the screen to quit."
LblApplyError == "Error applying final calibration. Tap the screen to quit."
LblSuccess == "New calibration saved and applied successfully. Tap the screen to finish."

(***************************************************************************)
(* Rationals [n, d] with d > 0, standing for the source's floats.          *)
(***************************************************************************)
Rat(n, d) == [n |-> n, d |-> d]
RInt(i) == Rat(i, 1)
RAdd(a, b) == Rat(a.n * b.d + b.n * a.d, a.d * b.d)
RSub(a, b) == Rat(a.n * b.d - b.n * a.d, a.d * b.d)
RMul(a, b) == Rat(a.n * b.n, a.d * b.d)
RDiv(a, b) == IF b.n > 0 THEN Rat(a.n * b.d, a.d * b.n)
                         ELSE Rat(-(a.n * b.d), -(a.d * b.n))
RLess(a, b) == a.n * b.d < b.n * a.d
\* Conversion of a float to int: truncation toward zero.
Trunc(a) == IF a.n >= 0 THEN a.n \div a.d ELSE -((-a.n) \div a.d)

Point(x, y) == [x |-> x, y |-> y]


(***************************************************************************)
(* CalibrationWindow::CalibrationWindow: the four crosshairs.              *)
(***************************************************************************)
CrosshairPoints ==
    << Point(CROSSHAIR_OFFSET, CROSSHAIR_OFFSET),
       Point(ScreenW - CROSSHAIR_OFFSET, CROSSHAIR_OFFSET),
       Point(ScreenW - CROSSHAIR_OFFSET, ScreenH - CROSSHAIR_OFFSET),
       Point(CROSSHAIR_OFFSET, ScreenH - CROSSHAIR_OFFSET) >>

(***************************************************************************)
(* handleTouchUpdate: edge detection.                                      *)
(***************************************************************************)
TouchJustPressed(pressed, wasPressed) == pressed /\ ~wasPressed

\* Mutant: every sample with the screen untouched counts as a release.
TouchJustReleasedWheneverUp(pressed, wasPressed) == ~pressed

TouchJustReleased(pressed, wasPressed) ==
    ~TouchJustPressed(pressed, wasPressed) /\ ~pressed /\ wasPressed

NextTouchIsPressed(pressed, wasPressed) ==
    IF TouchJustPressed(pressed, wasPressed) THEN TRUE
    ELSE IF TouchJustReleased(pressed, wasPressed) THEN FALSE
    ELSE wasPressed

(***************************************************************************)
(* handleTouchUpdate: the sample window.                                   *)
(***************************************************************************)
\* Mutant: the window restarts from the new sample once it is over capacity.
EnqueueResetOnOverflow(q, xy) ==
    LET q1 == Append(q, xy)
    IN  IF Len(q1) > MAX_AVG_POINTS THEN <<xy>> ELSE q1

\* _points.enqueue(xy); if (_points.count() > MAX_AVG_POINTS) _points.dequeue();
Enqueue(q, xy) ==
    LET q1 == Append(q, xy)
    IN  IF Len(q1) > MAX_AVG_POINTS THEN Tail(q1) ELSE q1

RECURSIVE SumX(_)
SumX(q) == IF q = <<>> THEN 0 ELSE Head(q).x + SumX(Tail(q))

RECURSIVE SumY(_)
SumY(q) == IF q = <<>> THEN 0 ELSE Head(q).y + SumY(Tail(q))

\* qRound(float d):
\*   d >= 0 ? int(d + 0.5f) : int(d - float(int(d-1)) + 0.5f) + int(d-1)
QRound(d) ==
    IF d.n >= 0
    THEN Trunc(RAdd(d, Rat(1, 2)))
    ELSE LET i == Trunc(RSub(d, RInt(1)))
         IN  Trunc(RAdd(RSub(d, RInt(i)), Rat(1, 2))) + i

\* Mutant: the sums divided by the capacity of the window.
AverageOverCapacity(q) ==
    Point(QRound(RDiv(RInt(SumX(q)), RInt(MAX_AVG_POINTS))),
          QRound(RDiv(RInt(SumY(q)), RInt(MAX_AVG_POINTS))))

\* The while loop that dequeues every sample, and the two qRound calls.
Average(q) ==
    LET count == Len(q)
    IN  Point(QRound(RDiv(RInt(SumX(q)), RInt(count))),
              QRound(RDiv(RInt(SumY(q)), RInt(count))))

(***************************************************************************)
(* handleTouchUpdate: the bounds, stored in the int fields _minXCal ...    *)
(***************************************************************************)
LeftXCal(cp) == RDiv(RInt(cp[1].x + cp[4].x), RInt(2))
RightXCal(cp) == RDiv(RInt(cp[2].x + cp[3].x), RInt(2))
TopYCal(cp) == RDiv(RInt(cp[1].y + cp[2].y), RInt(2))
BotYCal(cp) == RDiv(RInt(cp[3].y + cp[4].y), RInt(2))

ScaleX(cp) ==
    RDiv(RSub(RightXCal(cp), LeftXCal(cp)),
         RSub(RInt(CrosshairPoints[2].x), RInt(CrosshairPoints[1].x)))

\* Mutant: the Y scale taken over the horizontal distance of the crosshairs.
ScaleYOverWidth(cp) ==
    RDiv(RSub(BotYCal(cp), TopYCal(cp)),
         RSub(RInt(CrosshairPoints[2].x), RInt(CrosshairPoints[1].x)))

ScaleY(cp) ==
    RDiv(RSub(BotYCal(cp), TopYCal(cp)),
         RSub(RInt(CrosshairPoints[3].y), RInt(CrosshairPoints[1].y)))

\* Mutant: the margin of the left edge added instead of subtracted.
MinXExtrapolatedInward(cp) ==
    RAdd(LeftXCal(cp), RMul(ScaleX(cp), RInt(CROSSHAIR_OFFSET)))

\* The extrapolated bounds before they are stored.
MinXExtrapolated(cp) == RSub(LeftXCal(cp), RMul(ScaleX(cp), RInt(CROSSHAIR_OFFSET)))
MaxXExtrapolated(cp) == RAdd(RightXCal(cp), RMul(ScaleX(cp), RInt(CROSSHAIR_OFFSET)))
MinYExtrapolated(cp) == RSub(TopYCal(cp), RMul(ScaleY(cp), RInt(CROSSHAIR_OFFSET)))
MaxYExtrapolated(cp) == RAdd(BotYCal(cp), RMul(ScaleY(cp), RInt(CROSSHAIR_OFFSET)))

\* The assignments to the int fields: each float is truncated toward zero.
StoredCal(cp) ==
    [minX |-> Trunc(MinXExtrapolated(cp)),
     maxX |-> Trunc(MaxXExtrapolated(cp)),
     minY |-> Trunc(MinYExtrapolated(cp)),
     maxY |-> Trunc(MaxYExtrapolated(cp))]

\* Mutant: the range check without the lower bound of the Y axis.
CalOutOfRangeNoMinY(c) ==
    \/ c.minX < 0
    \/ c.maxX > RAW_TOUCHSCREEN_RANGE
    \/ c.maxY > RAW_TOUCHSCREEN_RANGE
    \/ c.minX > c.maxX
    \/ c.minY > c.maxY

\* The range check on the stored fields.
CalOutOfRange(c) ==
    \/ c.minX < 0
    \/ c.maxX > RAW_TOUCHSCREEN_RANGE
    \/ c.minY < 0
    \/ c.maxY > RAW_TOUCHSCREEN_RANGE
    \/ c.minX > c.maxX
    \/ c.minY > c.maxY

(***************************************************************************)
(* handleTouchUpdate: the calibration matrix.  An entry is a quotient      *)
(* [n, d] of two floats; d = 0 stands for the infinity a float division by *)
(* zero yields.                                                            *)
(***************************************************************************)
\* int / int with a divisor that is not zero: truncation toward zero.
CIntDiv(a, b) ==
    LET absA == IF a < 0 THEN -a ELSE a
        absB == IF b < 0 THEN -b ELSE b
        q == absA \div absB
    IN  IF (a < 0) = (b < 0) THEN q ELSE -q

\* float a = rangeF / (_maxXCal - _minXCal): a float division.
MatrixScale(lo, hi) == Rat(RAW_TOUCHSCREEN_RANGE, hi - lo)

\* float c = _minXCal / (_minXCal - _maxXCal): both operands are int fields,
\* so this is an integer division whose quotient is converted to float.
MatrixOffset(lo, hi) == RInt(CIntDiv(lo, lo - hi))

AssembleMatrix(c) ==
    << MatrixScale(c.minX, c.maxX), RInt(0), MatrixOffset(c.minX, c.maxX),
       RInt(0), MatrixScale(c.minY, c.maxY), MatrixOffset(c.minY, c.maxY),
       RInt(0), RInt(0), RInt(1) >>

\* The integer divisions above divide by zero: undefined behaviour.
MatrixUndefined(c) == c.minX - c.maxX = 0 \/ c.minY - c.maxY = 0

\* What a build makes of the division by zero when it does not trap: the
\* quotient 0 (the result of ARM's sdiv).
AssembleMatrixNoTrap(c) ==
    << MatrixScale(c.minX, c.maxX), RInt(0),
       IF c.minX - c.maxX = 0 THEN RInt(0) ELSE MatrixOffset(c.minX, c.maxX),
       RInt(0), MatrixScale(c.minY, c.maxY),
       IF c.minY - c.maxY = 0 THEN RInt(0) ELSE MatrixOffset(c.minY, c.maxY),
       RInt(0), RInt(0), RInt(1) >>


(***************************************************************************)
(* CalibrationUtils::saveNewCalibration and applyCalibration, seen from    *)
(* the window: the outcome of the system calls is the environment's.       *)
(***************************************************************************)
SaveOutcomes == {"ok", "openFailed", "shortWrite"}

ApplyOutcomes ==
    {"ok", "noDisplay", "noDeviceList", "deviceNotFound", "openDeviceFailed",
     "noMatrixAtom", "noFloatAtom", "xError"}

NoFile == [status |-> "absent", matrix |-> <<>>]

\* The return value of saveNewCalibration.
SaveNewCalibration(matrix, out) ==
    IF Len(matrix) # 9 THEN FALSE ELSE out = "ok"

\* The calibration file after saveNewCalibration: opened with Truncate, then
\* written; a short write leaves a truncated file behind.
SavedFile(matrix, out, file) ==
    IF Len(matrix) # 9 \/ out = "openFailed" THEN file
    ELSE IF out = "shortWrite" THEN [status |-> "truncated", matrix |-> <<>>]
    ELSE [status |-> "written", matrix |-> matrix]

\* The return value of applyCalibration: retval && !xErrorOccurred.
ApplyCalibration(matrix, out) ==
    IF Len(matrix) # 9 THEN FALSE ELSE out = "ok"

\* The device's matrix property after applyCalibration: replaced when the
\* request was issued and the server raised no error for it.
AppliedMatrix(matrix, out, current) ==
    IF Len(matrix) = 9 /\ out = "ok" THEN matrix ELSE current

\* xErrorOccurred after applyCalibration: left alone by the length check,
\* reset otherwise, and set when the handler ran.
FlagAfterApply(matrix, out, flag) ==
    IF Len(matrix) # 9 THEN flag ELSE out = "xError"

(***************************************************************************)
(* handleTouchUpdate: the final commit.                                    *)
(***************************************************************************)
\* Mutant: apply is attempted whatever the save returned.
ApplyAttemptedAlways(saveOk) == TRUE

\* if (!save) ... else if (!apply) ...: apply is evaluated after a save that
\* returned true.
ApplyAttempted(saveOk) == saveOk

\* Mutant: the outcome of the apply is not looked at.
CommitLabelIgnoresApply(saveOk, applyOk) ==
    IF ~saveOk THEN LblSaveError ELSE LblSuccess

CommitLabel(saveOk, applyOk) ==
    IF ~saveOk THEN LblSaveError
    ELSE IF ~applyOk THEN LblApplyError
    ELSE LblSuccess

\* Mutant: every press-edge after the collecting phases commits.
CommitsOnEveryPress(cps) == TRUE

\* The branch taken on a press-edge once calibration finished.
CommitsOnPress(cps) == Len(cps) = NUM_CAL_POINTS

\* What the build makes of an integer division by zero.
DivideByZeroOutcomes == {"trap", "zero"}

Commit(saveOut, applyOut, ub) ==
    IF MatrixUndefined(cal) /\ ub = "trap"
    THEN /\ crashed' = TRUE
         /\ UNCHANGED <<label, calibrationPoints, backend>>
    ELSE LET matrix == IF MatrixUndefined(cal) THEN AssembleMatrixNoTrap(cal)
                       ELSE AssembleMatrix(cal)
             saveOk == SaveNewCalibration(matrix, saveOut)
             applied == ApplyAttempted(saveOk)
             applyOk == applied /\ ApplyCalibration(matrix, applyOut)
         IN  /\ saveCalls' = Append(saveCalls, [matrix |-> matrix, ok |-> saveOk])
             /\ calFile' = SavedFile(matrix, saveOut, calFile)
             /\ applyCalls' = IF applied
                              THEN Append(applyCalls, [matrix |-> matrix, ok |-> applyOk])
                              ELSE applyCalls
             /\ deviceMatrix' = IF applied
                                THEN AppliedMatrix(matrix, applyOut, deviceMatrix)
                                ELSE deviceMatrix
             /\ xErrorOccurred' = IF applied
                                  THEN FlagAfterApply(matrix, applyOut, xErrorOccurred)
                                  ELSE xErrorOccurred
             /\ UNCHANGED <<errorHandler, xcall>>
             /\ label' = CommitLabel(saveOk, applyOk)
             /\ calibrationPoints' = <<>>
             /\ crashed' = crashed

\* Whether the points just collected are discarded at the fourth release.
Rejected(c) == CalOutOfRange(c)

\* Mutant: a rejected calibration keeps its recorded points.
CollectKeepsRejected(xy, justReleased) ==
    LET q == Enqueue(points, xy)
    IN  IF justReleased
        THEN LET cps == Append(calibrationPoints, Average(q))
                 next == curCalPoint + 1
             IN  /\ points' = <<>>
                 /\ curCalPoint' = next
                 /\ calibrationPoints' = cps
                 /\ IF next = NUM_CAL_POINTS
                    THEN LET c == StoredCal(cps)
                         IN  /\ cal' = c
                             /\ label' = IF Rejected(c) THEN LblCalError
                                         ELSE LblComplete
                    ELSE /\ cal' = cal
                         /\ label' = label
        ELSE /\ points' = q
             /\ UNCHANGED <<curCalPoint, calibrationPoints, cal, label>>

\* The branch taken while _curCalPoint < NUM_CAL_POINTS.
Collect(xy, justReleased) ==
    LET q == Enqueue(points, xy)
    IN  IF justReleased
        THEN LET cps == Append(calibrationPoints, Average(q))
                 next == curCalPoint + 1
             IN  /\ points' = <<>>
                 /\ curCalPoint' = next
                 /\ IF next = NUM_CAL_POINTS
                    THEN LET c == StoredCal(cps)
                         IN  /\ cal' = c
                             /\ IF Rejected(c)
                                THEN /\ label' = LblCalError
                                     /\ calibrationPoints' = <<>>
                                ELSE /\ label' = LblComplete
                                     /\ calibrationPoints' = cps
                    ELSE /\ cal' = cal
                         /\ label' = label
                         /\ calibrationPoints' = cps
        ELSE /\ points' = q
             /\ UNCHANGED <<curCalPoint, calibrationPoints, cal, label>>

\* Mutant: the phase after the last point still collects.
CollectingPastLast(cur) == cur <= NUM_CAL_POINTS

\* Still calibrating.
Collecting(cur) == cur < NUM_CAL_POINTS

HandleTouchUpdate(xy, pressed) ==
    /\ touchIsPressed' = NextTouchIsPressed(pressed, touchIsPressed)
    /\ IF Collecting(curCalPoint)
       THEN /\ Collect(xy, TouchJustReleased(pressed, touchIsPressed))
            /\ UNCHANGED <<backend, exitRequested, crashed>>
       ELSE IF TouchJustPressed(pressed, touchIsPressed)
       THEN IF CommitsOnPress(calibrationPoints)
            THEN /\ \E saveOut \in SaveOutcomes, applyOut \in ApplyOutcomes,
                       ub \in DivideByZeroOutcomes :
                        Commit(saveOut, applyOut, ub)
                 /\ UNCHANGED <<curCalPoint, points, cal, exitRequested>>
            ELSE /\ exitRequested' = TRUE
                 /\ UNCHANGED <<label, curCalPoint, points, calibrationPoints,
                                cal, backend, crashed>>
       ELSE UNCHANGED <<label, curCalPoint, points, calibrationPoints, cal,
                        backend, exitRequested, crashed>>


(***************************************************************************)
(* readRawEvents: one iteration of the do/while per record.                *)
(***************************************************************************)
KeyCodes == {"BTN_TOUCH", "BTN_TOOL_PEN"}
KeyValues == {0, 1}
AbsCodes == {"ABS_X", "ABS_Y", "ABS_PRESSURE"}
SynCodes == {"SYN_REPORT", "SYN_CONFIG"}
OtherTypes == {"EV_REL", "EV_MSC"}

AbsValues(code, xVals, yVals) ==
    IF code = "ABS_X" THEN xVals
    ELSE IF code = "ABS_Y" THEN yVals
    ELSE {1}

\* case EV_KEY
TmpPressedAfter(type, code, value, cur) ==
    IF type = "EV_KEY" /\ code = "BTN_TOUCH" THEN value # 0 ELSE cur

\* case EV_ABS
TmpXYAfter(type, code, value, cur) ==
    IF type = "EV_ABS" /\ code = "ABS_X" THEN Point(value, cur.y)
    ELSE IF type = "EV_ABS" /\ code = "ABS_Y" THEN Point(cur.x, value)
    ELSE cur

\* Mutant: every EV_SYN record delivers, whatever its code.
DeliversOnAnySyn(type, code) == type = "EV_SYN"

\* case EV_SYN
DeliversSample(type, code) == type = "EV_SYN" /\ code = "SYN_REPORT"

\* result == sizeof(input_event): the record is decoded.
ReadRecord(type, code, value) ==
    /\ reading
    /\ ~crashed
    /\ tmpPressed' = TmpPressedAfter(type, code, value, tmpPressed)
    /\ tmpXY' = TmpXYAfter(type, code, value, tmpXY)
    /\ IF DeliversSample(type, code)
       THEN /\ HandleTouchUpdate(tmpXY, tmpPressed)
            /\ nSamples' = nSamples + 1
       ELSE UNCHANGED <<machine, backend, exitRequested, crashed, nSamples>>
    /\ UNCHANGED <<find, main, calibrationFd, timerArmed, reading>>

ReadKey == \E code \in KeyCodes, value \in KeyValues : ReadRecord("EV_KEY", code, value)

ReadAbs(xVals, yVals) ==
    \E code \in AbsCodes : \E value \in AbsValues(code, xVals, yVals) :
        ReadRecord("EV_ABS", code, value)

ReadSyn == \E code \in SynCodes : ReadRecord("EV_SYN", code, 0)

ReadOther == \E type \in OtherTypes : ReadRecord(type, "OTHER", 0)

\* Mutant: a short read that also empties the sample window.
ShortReadClearsWindow ==
    /\ reading
    /\ ~crashed
    /\ reading' = FALSE
    /\ points' = <<>>
    /\ UNCHANGED <<find, main, calibrationFd, timerArmed, tmpPressed, tmpXY, label,
                   curCalPoint, touchIsPressed, calibrationPoints, cal, backend,
                   exitRequested, crashed, nSamples>>

\* result != sizeof(input_event): a short or failed read ends the loop.
ShortRead ==
    /\ reading
    /\ ~crashed
    /\ reading' = FALSE
    /\ UNCHANGED <<find, main, calibrationFd, timerArmed, tmpPressed, tmpXY, machine, backend,
                   exitRequested, crashed, nSamples>>

\* Mutant: the notifier is created whether or not the touchscreen was found.
NotifierActivatedWithoutDevice ==
    /\ ~reading
    /\ ~exitRequested
    /\ ~crashed
    /\ reading' = TRUE
    /\ UNCHANGED <<find, main, calibrationFd, timerArmed, tmpPressed, tmpXY, machine, backend,
                   exitRequested, crashed, nSamples>>

\* The socket notifier calls readRawEvents when the descriptor is readable;
\* the event loop runs until exit was requested.
NotifierActivated ==
    /\ calibrationFd >= 0
    /\ ~reading
    /\ ~exitRequested
    /\ ~crashed
    /\ reading' = TRUE
    /\ UNCHANGED <<find, main, calibrationFd, timerArmed, tmpPressed, tmpXY, machine, backend,
                   exitRequested, crashed, nSamples>>

\* QTimer::singleShot(5000, qApp, &QApplication::quit)
TimerQuit ==
    /\ timerArmed
    /\ ~reading
    /\ ~exitRequested
    /\ timerArmed' = FALSE
    /\ exitRequested' = TRUE
    /\ UNCHANGED <<find, main, calibrationFd, tmpPressed, tmpXY, machine, backend, reading,
                   crashed, nSamples>>

(***************************************************************************)
(* The constructor.                                                        *)
(***************************************************************************)
\* What findTouchScreen returns: a descriptor, or -1.
FindTouchScreenResults == {-1, 3}

IdentityMatrix ==
    << RInt(1), RInt(0), RInt(0),
       RInt(0), RInt(1), RInt(0),
       RInt(0), RInt(0), RInt(1) >>

\* The handler Qt installed, and the one applyCalibration installs.
QtErrorHandler == "qtErrorHandler"
CalibrationErrorHandler == "touchScreenCalibrationErrorHandler"

\* main() has reached a.exec() after a start without arguments.
MainInExec ==
    [pc |-> "exec", argv1 |-> "none", existing |-> "notAttempted",
     default |-> "ok", exitStatus |-> "running"]

\* No invocation of applyCalibration is under way.
NoCall ==
    [pc |-> "idle", matrix |-> <<>>, retval |-> FALSE,
     prevErrorHandler |-> "unset", handlerAtCall |-> "unset",
     pending |-> FALSE, issued |-> FALSE, fired |-> FALSE,
     firedEarlier |-> FALSE, result |-> FALSE, calls |-> 0]

\* No search of /dev/input is under way; standard input, output and error
\* are open.
NoSearch ==
    [pc |-> "idle", inputs |-> <<>>, i |-> 1, fd |-> -1, fds |-> {0, 1, 2},
     opened |-> <<>>, held |-> {}, result |-> -1]

Init ==
    /\ calibrationFd \in FindTouchScreenResults
    /\ timerArmed = (calibrationFd < 0)
    /\ label = IF calibrationFd < 0 THEN LblNoDevice ELSE LblInstructions
    /\ curCalPoint = IF calibrationFd < 0 THEN NUM_CAL_POINTS ELSE 0
    /\ tmpPressed = FALSE
    /\ tmpXY = Point(0, 0)
    /\ touchIsPressed = FALSE
    /\ points = <<>>
    /\ calibrationPoints = <<>>
    /\ cal = [minX |-> 0, maxX |-> 0, minY |-> 0, maxY |-> 0]
    /\ reading = FALSE
    /\ exitRequested = FALSE
    /\ calFile = NoFile
    /\ deviceMatrix = IdentityMatrix
    /\ saveCalls = <<>>
    /\ applyCalls = <<>>
    /\ crashed = FALSE
    /\ xErrorOccurred = FALSE
    /\ errorHandler = QtErrorHandler
    /\ xcall = NoCall
    /\ main = MainInExec
    /\ find = NoSearch
    /\ nSamples = 0

(***************************************************************************)
(* Spec: sessions of steady taps.  The device reports a position only      *)
(* before the first sample of a tap, a Point phase sees at most            *)
(* MaxTapSamples samples and a session at most MaxSamples.                 *)
(***************************************************************************)
SteadyAbs == points = <<>> /\ ReadAbs(RawXVals, RawYVals)

TapSyn == ReadSyn /\ nSamples' <= MaxSamples /\ Len(points') < MaxTapSamples

Next ==
    \/ NotifierActivated
    \/ ReadKey
    \/ SteadyAbs
    \/ TapSyn
    \/ ReadOther
    \/ ShortRead
    \/ TimerQuit

Spec == Init /\ [][Next]_vars

\* SpecTimeout: Spec with the event loop firing a pending single-shot timer.
SpecTimeout == Init /\ [][Next]_vars /\ WF_vars(TimerQuit)

(***************************************************************************)
(* SpecWindow: the device reports positions at any time; a session sees at *)
(* most MaxWindowSamples samples.                                          *)
(***************************************************************************)
WindowAbs == ReadAbs(RawXVals, WindowYVals)

WindowSyn == ReadSyn /\ nSamples' <= MaxWindowSamples

NextWindow ==
    \/ NotifierActivated
    \/ ReadKey
    \/ WindowAbs
    \/ WindowSyn
    \/ ReadOther
    \/ ShortRead
    \/ TimerQuit

SpecWindow == Init /\ [][NextWindow]_vars


(***************************************************************************)
(* SpecCorners: the user taps the crosshair shown.  The device reports a   *)
(* position only before the first sample of a tap, and every sample of a   *)
(* Point phase lies at the crosshair of that phase.                        *)
(***************************************************************************)
CornerXVals(cur) == IF cur \in {0, 3} THEN LeftXVals ELSE RightXVals

CornerYVals(cur) == IF cur \in {0, 1} THEN TopYVals ELSE BottomYVals

CornerAbs ==
    /\ points = <<>>
    /\ Collecting(curCalPoint)
    /\ ReadAbs(CornerXVals(curCalPoint), CornerYVals(curCalPoint))

OnCrosshair ==
    Collecting(curCalPoint) =>
        /\ tmpXY.x \in CornerXVals(curCalPoint)
        /\ tmpXY.y \in CornerYVals(curCalPoint)

CornerSyn ==
    /\ OnCrosshair
    /\ ReadSyn
    /\ nSamples' <= MaxSamples
    /\ Len(points') < MaxTapSamples

NextCorners ==
    \/ NotifierActivated
    \/ ReadKey
    \/ CornerAbs
    \/ CornerSyn
    \/ ReadOther
    \/ ShortRead
    \/ TimerQuit

SpecCorners == Init /\ [][NextCorners]_vars

(***************************************************************************)
(* CalibrationUtils::applyCalibration, one Xlib call at a time.  An X      *)
(* error is handed to the handler installed in Xlib while a call of Xlib   *)
(* reads from the connection.                                              *)
(***************************************************************************)
\* Calls of applyCalibration in one run of SpecApply.
MaxApplyCalls == 2

WrongLengthMatrix == SubSeq(IdentityMatrix, 1, 8)

HalfRangeMatrix ==
    << RInt(2), RInt(0), RInt(0),
       RInt(0), RInt(2), RInt(-1),
       RInt(0), RInt(0), RInt(1) >>

ApplyMatrices == {IdentityMatrix, HalfRangeMatrix, WrongLengthMatrix}

\* Everything but the display server and the Xlib state.
window == <<find, main, calibrationFd, timerArmed, tmpPressed, tmpXY, machine,
            reading, exitRequested, crashed, nSamples>>
store == <<calFile, saveCalls, applyCalls>>

\* touchScreenCalibrationErrorHandler sets the flag; another handler does not.
FlagAfterError(handler, flag) ==
    IF handler = CalibrationErrorHandler THEN TRUE ELSE flag

\* An Xlib call during which an error arrives (err) or not.
FlagAfterXCall(err) ==
    IF err THEN FlagAfterError(errorHandler, xErrorOccurred) ELSE xErrorOccurred

FiredAfterXCall(err) ==
    xcall.fired \/ (err /\ errorHandler = CalibrationErrorHandler)

\* Mutant: the flag keeps the value an earlier call left.
FlagAtEntryKept(flag) == flag

\* xErrorOccurred = false;
FlagAtEntry(flag) == FALSE

\* Mutant: the handler installed stays in place.
HandlerAtExitKept(prev, installed) == installed

\* XSetErrorHandler(prevErrorHandler);
HandlerAtExit(prev, installed) == prev

\* return retval && !xErrorOccurred;
ApplyResult(retval, flag) == retval /\ ~flag

ApplyCall ==
    /\ xcall.pc \in {"idle", "returned"}
    /\ xcall.calls < MaxApplyCalls
    /\ \E matrix \in ApplyMatrices :
        xcall' = [NoCall EXCEPT !.pc = "checkLength", !.matrix = matrix,
                                !.handlerAtCall = errorHandler,
                                !.firedEarlier = xcall.firedEarlier \/ xcall.fired,
                                !.calls = xcall.calls + 1]
    /\ UNCHANGED <<window, store, deviceMatrix, xErrorOccurred, errorHandler>>

\* if (matrix.length() != 9) return false;  xErrorOccurred = false;
ApplyCheckLength ==
    /\ xcall.pc = "checkLength"
    /\ IF Len(xcall.matrix) # 9
       THEN /\ xcall' = [xcall EXCEPT !.pc = "returned", !.result = FALSE]
            /\ xErrorOccurred' = xErrorOccurred
       ELSE /\ xcall' = [xcall EXCEPT !.pc = "openDisplay"]
            /\ xErrorOccurred' = FlagAtEntry(xErrorOccurred)
    /\ UNCHANGED <<window, store, deviceMatrix, errorHandler>>

\* XOpenDisplay(nullptr); if (!display) return false;
ApplyOpenDisplay ==
    /\ xcall.pc = "openDisplay"
    /\ \E opened \in BOOLEAN :
        xcall' = IF opened THEN [xcall EXCEPT !.pc = "setHandler"]
                 ELSE [xcall EXCEPT !.pc = "returned", !.result = FALSE]
    /\ UNCHANGED <<window, store, deviceMatrix, xErrorOccurred, errorHandler>>

\* prevErrorHandler = XSetErrorHandler(touchScreenCalibrationErrorHandler);
ApplySetHandler ==
    /\ xcall.pc = "setHandler"
    /\ xcall' = [xcall EXCEPT !.pc = "listDevices", !.prevErrorHandler = errorHandler]
    /\ errorHandler' = CalibrationErrorHandler
    /\ UNCHANGED <<window, store, deviceMatrix, xErrorOccurred>>

\* An Xlib call that either succeeds (next) or fails (exit).
ApplyXCall(at, next, exit) ==
    /\ xcall.pc = at
    /\ \E ok \in BOOLEAN, err \in BOOLEAN :
        /\ xcall' = [xcall EXCEPT !.pc = IF ok THEN next ELSE exit,
                                  !.fired = FiredAfterXCall(err)]
        /\ xErrorOccurred' = FlagAfterXCall(err)
    /\ UNCHANGED <<window, store, deviceMatrix, errorHandler>>

\* XListInputDevices; if (!devices) goto exit_close_display;
ApplyListDevices == ApplyXCall("listDevices", "findDevice", "closeDisplay")

\* The loop over the device names; if (!found) goto exit_close_display;
ApplyFindDevice ==
    /\ xcall.pc = "findDevice"
    /\ \E found \in BOOLEAN :
        xcall' = [xcall EXCEPT !.pc = IF found THEN "openDevice" ELSE "closeDisplay"]
    /\ UNCHANGED <<window, store, deviceMatrix, xErrorOccurred, errorHandler>>

\* XOpenDevice; if (!device) goto exit_close_display;
ApplyOpenDevice == ApplyXCall("openDevice", "matrixAtom", "closeDisplay")

\* XInternAtom(LIBINPUT_CALIBRATION_PROPERTY); None: goto exit_close_device;
ApplyMatrixAtom == ApplyXCall("matrixAtom", "floatAtom", "closeDevice")

\* XInternAtom("FLOAT"); None: goto exit_close_device;
ApplyFloatAtom == ApplyXCall("floatAtom", "changeProperty", "closeDevice")

\* XChangeDeviceProperty; retval = true;  The server replaces the property
\* or answers with an error, which Xlib reads during a later call.
ApplyChangeProperty ==
    /\ xcall.pc = "changeProperty"
    /\ \E accepted \in BOOLEAN :
        /\ xcall' = [xcall EXCEPT !.pc = "closeDevice", !.retval = TRUE,
                                  !.issued = TRUE, !.pending = ~accepted]
        /\ deviceMatrix' = IF accepted THEN xcall.matrix ELSE deviceMatrix
    /\ UNCHANGED <<window, store, xErrorOccurred, errorHandler>>

\* exit_close_device: XCloseDevice(display, device);
ApplyCloseDevice ==
    /\ xcall.pc = "closeDevice"
    /\ \E err \in BOOLEAN :
        /\ xcall' = [xcall EXCEPT !.pc = "closeDisplay",
                                  !.pending = xcall.pending /\ ~err,
                                  !.fired = FiredAfterXCall(err)]
        /\ xErrorOccurred' = FlagAfterXCall(err)
    /\ UNCHANGED <<window, store, deviceMatrix, errorHandler>>

\* exit_close_display: XCloseDisplay(display), which reads every outstanding
\* answer of the server.
ApplyCloseDisplay ==
    /\ xcall.pc = "closeDisplay"
    /\ \E err \in BOOLEAN :
        /\ xcall' = [xcall EXCEPT !.pc = "restoreHandler", !.pending = FALSE,
                                  !.fired = FiredAfterXCall(err \/ xcall.pending)]
        /\ xErrorOccurred' = FlagAfterXCall(err \/ xcall.pending)
    /\ UNCHANGED <<window, store, deviceMatrix, errorHandler>>

\* XSetErrorHandler(prevErrorHandler); return retval && !xErrorOccurred;
ApplyRestoreAndReturn ==
    /\ xcall.pc = "restoreHandler"
    /\ errorHandler' = HandlerAtExit(xcall.prevErrorHandler, errorHandler)
    /\ xcall' = [xcall EXCEPT !.pc = "returned",
                              !.result = ApplyResult(xcall.retval, xErrorOccurred)]
    /\ UNCHANGED <<window, store, deviceMatrix, xErrorOccurred>>

NextApply ==
    \/ ApplyCall
    \/ ApplyCheckLength
    \/ ApplyOpenDisplay
    \/ ApplySetHandler
    \/ ApplyListDevices
    \/ ApplyFindDevice
    \/ ApplyOpenDevice
    \/ ApplyMatrixAtom
    \/ ApplyFloatAtom
    \/ ApplyChangeProperty
    \/ ApplyCloseDevice
    \/ ApplyCloseDisplay
    \/ ApplyRestoreAndReturn

\* SpecApply: applyCalibration is called MaxApplyCalls times in a row.
SpecApply == Init /\ [][NextApply]_vars

(***************************************************************************)
(* main().  applyExistingCalibration and applyDefaultCalibration are       *)
(* called by main.cpp and defined outside the sources at hand; they follow *)
(* the specification: applyExisting reads the persisted calibration and    *)
(* applies it, failing without touching the device when the file is        *)
(* missing or malformed; applyDefault applies the identity calibration.    *)
(***************************************************************************)
\* Samples delivered in one session under SpecMain.
MaxMainSamples == 3

Arguments == {"none", "--apply", "--apply-or-calibrate", "--verbose"}

\* The calibration file when the process starts.
StartFiles ==
    {NoFile,
     [status |-> "truncated", matrix |-> <<>>],
     [status |-> "written", matrix |-> HalfRangeMatrix]}

\* The window before main() constructs it.
NoLabel == ""

\* argc >= 2 && !strcmp(argv[1], "--apply"), or "--apply-or-calibrate"
AttemptsExisting(arg) == arg \in {"--apply", "--apply-or-calibrate"}

\* Mutant: main() returns after applyExistingCalibration only when it succeeded.
ReturnsOnlyWhenApplied(arg, applied) == AttemptsExisting(arg) /\ applied

\* Mutant: main() returns after applyExistingCalibration whatever the flag.
ReturnsWheneverAttempted(arg, applied) == AttemptsExisting(arg)

\* Whether main() returns right after applyExistingCalibration.
ReturnsAfterExisting(arg, applied) ==
    \/ arg = "--apply"
    \/ arg = "--apply-or-calibrate" /\ applied

\* applied ? EXIT_SUCCESS : EXIT_FAILURE
ExitStatusAfterExisting(applied) ==
    IF applied THEN "EXIT_SUCCESS" ELSE "EXIT_FAILURE"

\* Mutant: the result of applyDefaultCalibration is not looked at.
ProceedsWhateverDefault(reset) == TRUE

\* if (!applyDefaultCalibration()) return EXIT_FAILURE;
ProceedsAfterDefault(reset) == reset

\* The persisted calibration can be read back: nine fields.
ExistingReadable(file) == file.status = "written" /\ Len(file.matrix) = 9

\* The return value of applyExistingCalibration.
ApplyExistingCalibration(file, out) ==
    ExistingReadable(file) /\ ApplyCalibration(file.matrix, out)

\* The return value of applyDefaultCalibration.
ApplyDefaultCalibration(out) == ApplyCalibration(IdentityMatrix, out)

Attempted(ok) == IF ok THEN "ok" ELSE "failed"

unbuilt == <<find, calibrationFd, timerArmed, tmpPressed, tmpXY, machine, reading,
             exitRequested, crashed, nSamples>>

InitMain ==
    /\ \E arg \in Arguments :
        main = [pc |-> "start", argv1 |-> arg, existing |-> "notAttempted",
                default |-> "notAttempted", exitStatus |-> "running"]
    /\ calFile \in StartFiles
    /\ deviceMatrix = IdentityMatrix
    /\ calibrationFd = -1
    /\ timerArmed = FALSE
    /\ label = NoLabel
    /\ curCalPoint = 0
    /\ tmpPressed = FALSE
    /\ tmpXY = Point(0, 0)
    /\ touchIsPressed = FALSE
    /\ points = <<>>
    /\ calibrationPoints = <<>>
    /\ cal = [minX |-> 0, maxX |-> 0, minY |-> 0, maxY |-> 0]
    /\ reading = FALSE
    /\ exitRequested = FALSE
    /\ saveCalls = <<>>
    /\ applyCalls = <<>>
    /\ crashed = FALSE
    /\ xErrorOccurred = FALSE
    /\ errorHandler = QtErrorHandler
    /\ xcall = NoCall
    /\ find = NoSearch
    /\ nSamples = 0

\* return applyExistingCalibration() ? EXIT_SUCCESS : EXIT_FAILURE;  and
\* if (applyExistingCalibration()) return EXIT_SUCCESS;
MainApplyExisting ==
    /\ main.pc = "start"
    /\ AttemptsExisting(main.argv1)
    /\ \E out \in ApplyOutcomes :
        LET applied == ApplyExistingCalibration(calFile, out)
            returns == ReturnsAfterExisting(main.argv1, applied)
        IN  /\ main' = [main EXCEPT
                    !.existing = Attempted(applied),
                    !.pc = IF returns THEN "exited" ELSE "applyDefault",
                    !.exitStatus = IF returns THEN ExitStatusAfterExisting(applied)
                                   ELSE "running"]
            /\ deviceMatrix' = IF ExistingReadable(calFile)
                               THEN AppliedMatrix(calFile.matrix, out, deviceMatrix)
                               ELSE deviceMatrix
            /\ xErrorOccurred' = IF ExistingReadable(calFile)
                                 THEN FlagAfterApply(calFile.matrix, out, xErrorOccurred)
                                 ELSE xErrorOccurred
    /\ UNCHANGED <<unbuilt, store, errorHandler, xcall>>

\* Neither flag was given.
MainNoFlag ==
    /\ main.pc = "start"
    /\ ~AttemptsExisting(main.argv1)
    /\ main' = [main EXCEPT !.pc = "applyDefault"]
    /\ UNCHANGED <<unbuilt, backend>>

\* if (!applyDefaultCalibration()) { qCritical(...); return EXIT_FAILURE; }
MainApplyDefault ==
    /\ main.pc = "applyDefault"
    /\ \E out \in ApplyOutcomes :
        LET reset == ApplyDefaultCalibration(out)
            proceeds == ProceedsAfterDefault(reset)
        IN  /\ main' = [main EXCEPT
                    !.default = Attempted(reset),
                    !.pc = IF proceeds THEN "construct" ELSE "exited",
                    !.exitStatus = IF proceeds THEN "running" ELSE "EXIT_FAILURE"]
            /\ deviceMatrix' = AppliedMatrix(IdentityMatrix, out, deviceMatrix)
            /\ xErrorOccurred' = FlagAfterApply(IdentityMatrix, out, xErrorOccurred)
    /\ UNCHANGED <<unbuilt, store, errorHandler, xcall>>

\* QApplication a(argc, argv); CalibrationWindow w; w.showFullScreen(); a.exec()
MainCreateWindow ==
    /\ main.pc = "construct"
    /\ main' = [main EXCEPT !.pc = "exec"]
    /\ calibrationFd' \in FindTouchScreenResults
    /\ timerArmed' = (calibrationFd' < 0)
    /\ label' = IF calibrationFd' < 0 THEN LblNoDevice ELSE LblInstructions
    /\ curCalPoint' = IF calibrationFd' < 0 THEN NUM_CAL_POINTS ELSE 0
    /\ UNCHANGED <<tmpPressed, tmpXY, touchIsPressed, points, calibrationPoints,
                   cal, reading, exitRequested, crashed, nSamples, backend,
                   find>>

\* a.exec() returns once the exit was requested and the handler under way
\* has returned; quit() and exit() make it return 0.
MainExecReturns ==
    /\ main.pc = "exec"
    /\ exitRequested
    /\ ~reading
    /\ main' = [main EXCEPT !.pc = "exited", !.exitStatus = "EXIT_SUCCESS"]
    /\ UNCHANGED <<unbuilt, backend>>

MainSyn == ReadSyn /\ nSamples' <= MaxMainSamples

\* The event loop of a.exec().
MainEvent ==
    /\ main.pc = "exec"
    /\ \/ NotifierActivated
       \/ ReadKey
       \/ MainSyn
       \/ ShortRead
       \/ TimerQuit

NextMain ==
    \/ MainApplyExisting
    \/ MainNoFlag
    \/ MainApplyDefault
    \/ MainCreateWindow
    \/ MainEvent
    \/ MainExecReturns

\* SpecMain: the process from the start of main().
SpecMain == InitMain /\ [][NextMain]_vars

(***************************************************************************)
(* findTouchScreen, one system call at a time.  /dev/input holds up to     *)
(* MaxInputs nodes; a node can be opened or not, and reports the name of   *)
(* the touchscreen, another name, or none (the ioctl fails).               *)
(***************************************************************************)
MaxInputs == 3

CHUMBY_TOUCHSCREEN_NAME == "Chumby 8 touchscreen"

\* The names the ioctl leaves in name[]; "" when it fails.
InputNames == {CHUMBY_TOUCHSCREEN_NAME, "gpio-keys", ""}

InputNodes == [name : InputNames, openable : BOOLEAN]

RECURSIVE SeqsUpTo(_, _)
SeqsUpTo(S, n) ==
    IF n = 0 THEN {<<>>}
    ELSE LET shorter == SeqsUpTo(S, n - 1)
         IN  shorter \cup {Append(q, e) : q \in {r \in shorter : Len(r) = n - 1}, e \in S}

\* inputDir.entryList(QDir::System), in enumeration order.
InputLists == SeqsUpTo(InputNodes, MaxInputs)

\* The descriptors open when the function is called: the standard ones, or
\* descriptor 0 is free (standard input was closed and nothing took its place).
DescriptorTables == {{0, 1, 2}, {1, 2}}

\* open() returns the lowest descriptor that is not open.
LowestFree(fds) ==
    CHOOSE n \in 0..Cardinality(fds) : n \notin fds /\ \A m \in 0..(n - 1) : m \in fds

\* ::open(fullPath, O_RDONLY | O_NONBLOCK)
OpenResult(node, fds) == IF node.openable THEN LowestFree(fds) ELSE -1

\* if (fd > 0)
Examined(fd) == fd > 0

\* !::strncmp(name, CHUMBY_TOUCHSCREEN_NAME, sizeof(name))
NameMatches(name) == name = CHUMBY_TOUCHSCREEN_NAME

searching == <<calibrationFd, timerArmed, tmpPressed, tmpXY, machine, reading,
               exitRequested, crashed, nSamples, backend, main>>

InitFind ==
    /\ \E inputs \in InputLists, fds \in DescriptorTables :
        find = [NoSearch EXCEPT !.pc = "next", !.inputs = inputs, !.fds = fds]
    /\ main = [pc |-> "construct", argv1 |-> "none", existing |-> "notAttempted",
               default |-> "ok", exitStatus |-> "running"]
    /\ calFile = NoFile
    /\ deviceMatrix = IdentityMatrix
    /\ calibrationFd = -1
    /\ timerArmed = FALSE
    /\ label = NoLabel
    /\ curCalPoint = 0
    /\ tmpPressed = FALSE
    /\ tmpXY = Point(0, 0)
    /\ touchIsPressed = FALSE
    /\ points = <<>>
    /\ calibrationPoints = <<>>
    /\ cal = [minX |-> 0, maxX |-> 0, minY |-> 0, maxY |-> 0]
    /\ reading = FALSE
    /\ exitRequested = FALSE
    /\ saveCalls = <<>>
    /\ applyCalls = <<>>
    /\ crashed = FALSE
    /\ xErrorOccurred = FALSE
    /\ errorHandler = QtErrorHandler
    /\ xcall = NoCall
    /\ nSamples = 0

\* int fd = ::open(...) for the next entry of the list.
FindOpen ==
    /\ find.pc = "next"
    /\ find.i <= Len(find.inputs)
    /\ LET fd == OpenResult(find.inputs[find.i], find.fds)
       IN  find' = [find EXCEPT
                !.pc = "opened",
                !.fd = fd,
                !.opened = Append(@, fd),
                !.fds = IF fd >= 0 THEN @ \cup {fd} ELSE @,
                !.held = IF fd >= 0 THEN @ \cup {fd} ELSE @]
    /\ UNCHANGED searching

\* if (fd > 0) { ioctl; if (!strncmp(...)) return fd; ::close(fd); }
FindExamine ==
    /\ find.pc = "opened"
    /\ LET node == find.inputs[find.i]
       IN  IF Examined(find.fd)
           THEN IF NameMatches(node.name)
                THEN find' = [find EXCEPT !.pc = "returned", !.result = find.fd]
                ELSE find' = [find EXCEPT
                        !.pc = "next", !.i = @ + 1,
                        !.fds = @ \ {find.fd}, !.held = @ \ {find.fd}]
           ELSE find' = [find EXCEPT !.pc = "next", !.i = @ + 1]
    /\ UNCHANGED searching

\* qCritical("Unable to locate Chumby touchscreen"); return -1;
FindNotFound ==
    /\ find.pc = "next"
    /\ find.i > Len(find.inputs)
    /\ find' = [find EXCEPT !.pc = "returned", !.result = -1]
    /\ UNCHANGED searching

NextFind ==
    \/ FindOpen
    \/ FindExamine
    \/ FindNotFound

\* SpecFind: one invocation of findTouchScreen over each list of nodes.
SpecFind == InitFind /\ [][NextFind]_vars

(***************************************************************************)
(* The phases of the calibration state machine, read off the window.       *)
(***************************************************************************)
DeviceUnavailable == calibrationFd < 0
InPoint(k) == calibrationFd >= 0 /\ curCalPoint = k /\ k < NUM_CAL_POINTS
InDone == calibrationFd >= 0 /\ curCalPoint = NUM_CAL_POINTS /\ label = LblComplete
InError == calibrationFd >= 0 /\ curCalPoint = NUM_CAL_POINTS /\ label = LblCalError
InReported ==
    /\ calibrationFd >= 0
    /\ curCalPoint = NUM_CAL_POINTS
    /\ label \in {LblSaveError, LblApplyError, LblSuccess}


(***************************************************************************)
(* Definitions shared by the properties.                                   *)
(***************************************************************************)
\* The step that finalizes the fourth calibration point.
FourthRelease == Collecting(curCalPoint) /\ curCalPoint' = NUM_CAL_POINTS

\* The four points recorded once that step's point is appended.
RecordedAtFourth == Append(calibrationPoints, Average(Enqueue(points, tmpXY)))

PressEdge == ~touchIsPressed /\ touchIsPressed'

Abs(i) == IF i < 0 THEN -i ELSE i

\* Distances between the crosshairs, in pixels.
PixelsX == (ScreenW - CROSSHAIR_OFFSET) - CROSSHAIR_OFFSET
PixelsY == (ScreenH - CROSSHAIR_OFFSET) - CROSSHAIR_OFFSET

\* The extrapolated bounds of four points in closed form, as numerators over
\* 2 * PixelsX (2 * PixelsY): left - offset * (right - left) / pixels with
\* left = (x0 + x3) / 2 and right = (x1 + x2) / 2, and so on.
NumMinX(cps) ==
    (cps[1].x + cps[4].x) * PixelsX
        - CROSSHAIR_OFFSET * ((cps[2].x + cps[3].x) - (cps[1].x + cps[4].x))
NumMaxX(cps) ==
    (cps[2].x + cps[3].x) * PixelsX
        + CROSSHAIR_OFFSET * ((cps[2].x + cps[3].x) - (cps[1].x + cps[4].x))
NumMinY(cps) ==
    (cps[1].y + cps[2].y) * PixelsY
        - CROSSHAIR_OFFSET * ((cps[3].y + cps[4].y) - (cps[1].y + cps[2].y))
NumMaxY(cps) ==
    (cps[3].y + cps[4].y) * PixelsY
        + CROSSHAIR_OFFSET * ((cps[3].y + cps[4].y) - (cps[1].y + cps[2].y))

\* Some extrapolated bound lies outside [0, 4095], or min > max on an axis.
ExtrapolatedInvalid(cps) ==
    \/ NumMinX(cps) < 0
    \/ NumMaxX(cps) > RAW_TOUCHSCREEN_RANGE * 2 * PixelsX
    \/ NumMinY(cps) < 0
    \/ NumMaxY(cps) > RAW_TOUCHSCREEN_RANGE * 2 * PixelsY
    \/ NumMinX(cps) > NumMaxX(cps)
    \/ NumMinY(cps) > NumMaxY(cps)

TowardZero(n, d) == IF n >= 0 THEN n \div d ELSE -((-n) \div d)

\* The same with every bound first truncated toward zero to an integer.
TruncatedInvalid(cps) ==
    LET minX == TowardZero(NumMinX(cps), 2 * PixelsX)
        maxX == TowardZero(NumMaxX(cps), 2 * PixelsX)
        minY == TowardZero(NumMinY(cps), 2 * PixelsY)
        maxY == TowardZero(NumMaxY(cps), 2 * PixelsY)
    IN  \/ minX < 0 \/ maxX > RAW_TOUCHSCREEN_RANGE
        \/ minY < 0 \/ maxY > RAW_TOUCHSCREEN_RANGE
        \/ minX > maxX \/ minY > maxY

(***************************************************************************)
(* C1.  As claimed: whenever an extrapolated bound of the four recorded    *)
(* points falls outside [0, 4095] or min > max on an axis, the machine is  *)
(* in Error after the fourth release and never in Done.                    *)
(***************************************************************************)
C1_AsClaimed == InDone => ~ExtrapolatedInvalid(calibrationPoints)

\* C1, amended: whenever a bound as stored (the extrapolated value truncated
\* toward zero to an integer) falls outside [0, 4095], or the stored min
\* exceeds the stored max on an axis, the fourth release leaves the machine in
\* Error with the points discarded, Done is never entered with such bounds,
\* and Error is never left.
C1_StoredBoundsRejected ==
    /\ [][FourthRelease /\ TruncatedInvalid(RecordedAtFourth)
            => InError' /\ calibrationPoints' = <<>>]_vars
    /\ [](InDone => ~TruncatedInvalid(calibrationPoints))
    /\ [][InError => InError']_vars

\* An Error entered because a stored bound is below the raw range.
C1_Witness == InError /\ cal.minY < 0 /\ cal.minX <= cal.maxX

(***************************************************************************)
(* C3.  The scenario of the specification.                                 *)
(***************************************************************************)
ScenarioPoints ==
    << Point(100, 100), Point(3990, 100), Point(3990, 3990), Point(100, 3990) >>

ScenarioTargets ==
    << Point(20, 20), Point(1004, 20), Point(1004, 764), Point(20, 764) >>

Near(v, target) == Abs(v - target) <= 10

\* C3, as claimed: the scenario's four points yield bounds of about 80, 4010,
\* 80 and 4010 and the calibration is accepted (Done).
C3_AsClaimed ==
    [][FourthRelease /\ RecordedAtFourth = ScenarioPoints
        => /\ InDone'
           /\ Near(cal'.minX, 80)
           /\ Near(cal'.maxX, 4010)
           /\ Near(cal'.minY, 80)
           /\ Near(cal'.maxY, 4010)]_vars

ScenarioCal == [minX |-> 20, maxX |-> 4069, minY |-> -4, maxY |-> 4094]

\* C3, amended: against the targets (20,20), (1004,20), (1004,764), (20,764)
\* the scenario's four points yield the stored bounds 20, 4069, -4 and 4094;
\* the lower Y bound is negative, so the calibration is rejected (Error, points
\* discarded), nothing is ever saved or applied, and the next press-edge
\* requests the exit of the application.
C3_ScenarioRejected ==
    /\ [](CrosshairPoints = ScenarioTargets)
    /\ [][FourthRelease /\ RecordedAtFourth = ScenarioPoints
            => cal' = ScenarioCal /\ InError' /\ calibrationPoints' = <<>>]_vars
    /\ [](curCalPoint = NUM_CAL_POINTS /\ cal = ScenarioCal
            => /\ InError
               /\ saveCalls = <<>> /\ applyCalls = <<>>
               /\ calFile = NoFile /\ deviceMatrix = IdentityMatrix)
    /\ [][InError /\ cal = ScenarioCal /\ PressEdge => exitRequested']_vars

\* The scenario was rejected and the next press asked for the exit.
C3_Witness == InError /\ cal = ScenarioCal /\ exitRequested


(***************************************************************************)
(* C2.  saveNewCalibration and applyCalibration are invoked only with a    *)
(* matrix built from bounds that passed the validation at the fourth       *)
(* release; in Error and in DeviceUnavailable neither is ever invoked.     *)
(***************************************************************************)
ValidBounds(c) ==
    /\ 0 <= c.minX /\ c.minX <= c.maxX /\ c.maxX <= RAW_TOUCHSCREEN_RANGE
    /\ 0 <= c.minY /\ c.minY <= c.maxY /\ c.maxY <= RAW_TOUCHSCREEN_RANGE

\* The matrix carries the scales of the bounds c, and their offsets wherever
\* the offset's division is defined.
BuiltFrom(m, c) ==
    /\ Len(m) = 9
    /\ m[1] = Rat(RAW_TOUCHSCREEN_RANGE, c.maxX - c.minX)
    /\ m[5] = Rat(RAW_TOUCHSCREEN_RANGE, c.maxY - c.minY)
    /\ c.minX # c.maxX => m[3] = RInt(CIntDiv(c.minX, c.minX - c.maxX))
    /\ c.minY # c.maxY => m[6] = RInt(CIntDiv(c.minY, c.minY - c.maxY))

Invoked == saveCalls' # saveCalls \/ applyCalls' # applyCalls

C2_OnlyValidatedMatrix ==
    /\ [][Invoked =>
            /\ InDone /\ ValidBounds(cal)
            /\ cal = StoredCal(calibrationPoints)
            /\ BuiltFrom(saveCalls'[Len(saveCalls')].matrix, cal)
            /\ \A i \in 1..Len(applyCalls') :
                    \E j \in 1..Len(saveCalls') :
                        applyCalls'[i].matrix = saveCalls'[j].matrix]_vars
    /\ [][(InError \/ DeviceUnavailable) => ~Invoked]_vars
    /\ []((InError \/ DeviceUnavailable) => saveCalls = <<>> /\ applyCalls = <<>>)

\* A validated matrix was saved and applied, and the process went on to exit.
C2_Witness ==
    /\ Len(saveCalls) = 1 /\ Len(applyCalls) = 1
    /\ applyCalls[1].matrix = saveCalls[1].matrix
    /\ cal.minX < cal.maxX /\ cal.minY < cal.maxY
    /\ exitRequested

(***************************************************************************)
(* C4.  As claimed: every final commit attempts both the save and the      *)
(* apply, whatever the other returned.                                     *)
(***************************************************************************)
FinalCommit == InDone /\ PressEdge /\ ~crashed'

Consistent(cps) ==
    /\ cps[1].x = cps[4].x /\ cps[2].x = cps[3].x
    /\ cps[1].y = cps[2].y /\ cps[3].y = cps[4].y

RECURSIVE GCD(_, _)
GCD(a, b) == IF b = 0 THEN a ELSE GCD(b, a % b)

Reduced(r) == LET g == GCD(Abs(r.n), r.d) IN Rat(r.n \div g, r.d \div g)

\* | scale * (raw / 4095) + offset - pixel / size | <= 1 / 100
MapsTo(scale, offset, raw, pixel, size) ==
    /\ scale.d > 0
    /\ LET v == RAdd(Reduced(RMul(scale, Rat(raw, RAW_TOUCHSCREEN_RANGE))), offset)
       IN  100 * Abs(v.n * size - pixel * v.d) <= v.d * size

C7_AsClaimed ==
    [][(InDone /\ Consistent(calibrationPoints) /\ saveCalls' # saveCalls) =>
        LET m == saveCalls'[Len(saveCalls')].matrix
        IN  \A i \in 1..NUM_CAL_POINTS :
                /\ MapsTo(m[1], m[3], calibrationPoints[i].x,
                          CrosshairPoints[i].x, ScreenW)
                /\ MapsTo(m[5], m[6], calibrationPoints[i].y,
                          CrosshairPoints[i].y, ScreenH)]_vars

(***************************************************************************)
(* C8.  As claimed: the bounds computed from any four recorded points      *)
(* enclose each of the four points.                                        *)
(***************************************************************************)
Encloses(c, p) ==
    /\ c.minX <= p.x /\ p.x <= c.maxX
    /\ c.minY <= p.y /\ p.y <= c.maxY

C8_AsClaimed ==
    [][FourthRelease =>
        \A i \in 1..NUM_CAL_POINTS : Encloses(cal', RecordedAtFourth[i])]_vars

Ordered(cps) == cps[1].x <= cps[2].x /\ cps[1].y <= cps[4].y

\* C8, amended: when the four recorded points are consistent (points 0 and 3
\* share X, 1 and 2 share X, 0 and 1 share Y, 2 and 3 share Y) with the left
\* edge not right of the right edge and the top edge not below the bottom
\* edge, the computed integer bounds enclose each of the four points.
C8_ConsistentPointsEnclosed ==
    [][(FourthRelease /\ Consistent(RecordedAtFourth) /\ Ordered(RecordedAtFourth))
        => \A i \in 1..NUM_CAL_POINTS : Encloses(cal', RecordedAtFourth[i])]_vars

\* Accepted bounds that lie strictly outside the consistent points on the X
\* axis and below them on the Y axis.
C8_Witness ==
    /\ InDone /\ Consistent(calibrationPoints)
    /\ cal.minX < calibrationPoints[1].x /\ calibrationPoints[2].x < cal.maxX
    /\ calibrationPoints[3].y < cal.maxY


(***************************************************************************)
(* C5.  The sample window never holds more than MAX_AVG_POINTS samples; a  *)
(* sample that arrives in a Point phase without a release-edge is appended, *)
(* and when the window was full only its oldest sample is dropped.         *)
(***************************************************************************)
ReleaseEdge == touchIsPressed /\ ~touchIsPressed'

Delivered == nSamples' = nSamples + 1

C5_SlidingWindow ==
    /\ [](Len(points) <= MAX_AVG_POINTS)
    /\ [][(Delivered /\ Collecting(curCalPoint) /\ ~ReleaseEdge) =>
            points' = IF Len(points) = MAX_AVG_POINTS
                      THEN Append(Tail(points), tmpXY)
                      ELSE Append(points, tmpXY)]_vars

\* A sixth sample arrived: the window holds five, the oldest one was dropped.
C5_Witness ==
    /\ curCalPoint = 0
    /\ nSamples = MAX_AVG_POINTS + 1
    /\ Len(points) = MAX_AVG_POINTS
    /\ points[1] # points[MAX_AVG_POINTS]

(***************************************************************************)
(* C6.  On a release-edge in a Point phase the recorded point is, per      *)
(* axis, the sum of the samples in the window (the release sample and at   *)
(* most four before it) divided by their count and rounded to the nearest  *)
(* integer, and the window is empty afterwards.                            *)
(***************************************************************************)
LastSamples(q, k) == IF Len(q) <= k THEN q ELSE SubSeq(q, Len(q) - k + 1, Len(q))

\* v is sum / n rounded to the nearest integer, halves upwards.
NearestInteger(sum, n, v) == 2 * n * v <= 2 * sum + n /\ 2 * sum + n < 2 * n * (v + 1)

C6_AverageOfWindow ==
    [][(Delivered /\ Collecting(curCalPoint) /\ ReleaseEdge) =>
        LET w == LastSamples(Append(points, tmpXY), MAX_AVG_POINTS)
            n == Len(w)
        IN  /\ n \in 1..MAX_AVG_POINTS
            /\ points' = <<>>
            /\ curCalPoint' = curCalPoint + 1
            /\ calibrationPoints' # <<>> =>
                 /\ Len(calibrationPoints') = curCalPoint'
                 /\ SubSeq(calibrationPoints', 1, curCalPoint) = calibrationPoints
                 /\ NearestInteger(SumX(w), n, calibrationPoints'[curCalPoint'].x)
                 /\ NearestInteger(SumY(w), n, calibrationPoints'[curCalPoint'].y)]_vars

\* A point averaged over three samples (40, 40 and 0 on the X axis) and
\* rounded upwards.
C6_Witness ==
    /\ curCalPoint >= 1 /\ Len(calibrationPoints) >= 1
    /\ calibrationPoints[1].x = 27
    /\ points = <<>>

(***************************************************************************)
(* C9.  EV_KEY and EV_ABS records change at most the transient fields;     *)
(* handleTouchUpdate is called once for a SYN_REPORT record, with the      *)
(* transient values, and for no other record.                              *)
(***************************************************************************)
Transients == <<tmpPressed, tmpXY>>

C9_OnlySynReportDelivers ==
    /\ [][(ReadKey \/ ReadAbs(RawXVals, RawYVals)) =>
            UNCHANGED <<machine, backend, exitRequested, nSamples>>]_vars
    /\ [][Transients' # Transients =>
            UNCHANGED <<machine, backend, exitRequested, nSamples>>]_vars
    /\ [][ReadRecord("EV_SYN", "SYN_REPORT", 0) =>
            /\ Delivered
            /\ UNCHANGED Transients
            /\ touchIsPressed' = tmpPressed
            /\ (Collecting(curCalPoint) /\ ~ReleaseEdge) =>
                    points' = Enqueue(points, tmpXY)]_vars
    /\ [][(ReadOther \/ ReadRecord("EV_SYN", "SYN_CONFIG", 0)) =>
            UNCHANGED <<machine, backend, exitRequested, nSamples>>]_vars
    /\ [][(machine' # machine \/ backend' # backend) => Delivered]_vars

\* The transient fields hold a press at a position, and nothing was delivered.
C9_Witness ==
    /\ reading
    /\ tmpPressed /\ tmpXY = Point(40, 30)
    /\ ~touchIsPressed /\ points = <<>> /\ curCalPoint = 0
    /\ nSamples = 0

(***************************************************************************)
(* C10.  A short or failed read ends the invocation of readRawEvents and   *)
(* changes nothing else; the notifier can then start a later invocation,   *)
(* whose records are read.                                                 *)
(***************************************************************************)
C10_ShortReadDropped ==
    /\ [][ShortRead =>
            /\ ~reading'
            /\ UNCHANGED <<machine, Transients, backend, exitRequested, nSamples>>]_vars
    /\ [][(reading /\ ~reading') =>
            UNCHANGED <<machine, Transients, backend, exitRequested, nSamples>>]_vars
    /\ []((~reading /\ calibrationFd >= 0 /\ ~exitRequested /\ ~crashed)
            => ENABLED NotifierActivated)
    /\ []((reading /\ ~crashed) => ENABLED ReadKey)

\* A read failed in the middle of the second tap: the phase, the window and
\* the transient fields are as the last record left them.
C10_Witness ==
    /\ ~reading
    /\ curCalPoint = 1 /\ touchIsPressed /\ tmpPressed
    /\ points = <<Point(40, 30)>> /\ tmpXY = Point(40, 30)
    /\ nSamples = 3


(***************************************************************************)
(* C11.  The first press-edge in Done performs the commit and moves the    *)
(* machine to the reported sub-state with the recorded points discarded,   *)
(* whatever the save and the apply return; there is at most one commit in  *)
(* a session, and the press-edge after it requests the exit.               *)
(***************************************************************************)
C11_AsClaimed ==
    /\ [][(InDone /\ PressEdge) =>
            /\ Len(saveCalls') = Len(saveCalls) + 1
            /\ InReported'
            /\ calibrationPoints' = <<>>]_vars
    /\ [](Len(saveCalls) <= 1)
    /\ [][(InReported /\ PressEdge) => (exitRequested' /\ UNCHANGED backend)]_vars

(***************************************************************************)
(* C12.  In Error the first press-edge requests the exit of the            *)
(* application; no other sample requests anything, and nothing but the     *)
(* debounced press state and the exit request ever changes again.          *)
(***************************************************************************)
C12_ErrorTapToExit ==
    /\ [][(InError /\ PressEdge) => exitRequested']_vars
    /\ [][(InError /\ exitRequested' # exitRequested) => (Delivered /\ PressEdge)]_vars
    /\ [][InError =>
            /\ InError'
            /\ UNCHANGED <<label, curCalPoint, points, calibrationPoints, cal,
                           backend, timerArmed>>]_vars

\* Error, a release after the tap that asked for the exit.
C12_Witness ==
    /\ InError /\ exitRequested
    /\ ~touchIsPressed
    /\ saveCalls = <<>> /\ applyCalls = <<>>

(***************************************************************************)
(* C19.  While collecting, the number of recorded points is the phase      *)
(* index; the index changes only by one, upwards, and exactly on the       *)
(* release-edges of the collecting phases; the fourth release-edge leaves  *)
(* the collecting phases for Done or Error.                                *)
(***************************************************************************)
C19_OnePointPerPhase ==
    /\ [](curCalPoint \in 0..NUM_CAL_POINTS)
    /\ [](curCalPoint < NUM_CAL_POINTS => Len(calibrationPoints) = curCalPoint)
    /\ [][curCalPoint' # curCalPoint =>
            /\ curCalPoint' = curCalPoint + 1
            /\ Delivered /\ ReleaseEdge]_vars
    /\ [][(curCalPoint < NUM_CAL_POINTS /\ Delivered /\ ReleaseEdge) =>
            /\ curCalPoint' = curCalPoint + 1
            /\ curCalPoint' < NUM_CAL_POINTS =>
                    Len(calibrationPoints') = Len(calibrationPoints) + 1]_vars
    /\ [][(curCalPoint < NUM_CAL_POINTS /\ curCalPoint' = NUM_CAL_POINTS) =>
            (InDone' \/ InError')]_vars

\* Two points recorded after six samples: more samples than edges.
C19_Witness ==
    /\ curCalPoint = 2 /\ Len(calibrationPoints) = 2
    /\ nSamples = 6

(***************************************************************************)
(* C20.  After the first press-edge in Done the label is the success       *)
(* message exactly when saveNewCalibration and applyCalibration both       *)
(* returned true; a save that returned false shows the save error, an      *)
(* apply that returned false shows the apply error.                        *)
(***************************************************************************)
Returned(calls, ok) == calls # <<>> /\ calls[Len(calls)].ok = ok

C20_FailuresReported ==
    /\ [][(InDone /\ PressEdge) =>
            /\ label' = LblSuccess <=>
                    (Returned(saveCalls', TRUE) /\ Returned(applyCalls', TRUE))
            /\ Returned(saveCalls', FALSE) => label' = LblSaveError
            /\ Returned(applyCalls', FALSE) => label' = LblApplyError]_vars
    /\ [](label = LblSuccess =>
            Returned(saveCalls, TRUE) /\ Returned(applyCalls, TRUE))
    /\ [](label = LblApplyError =>
            Returned(saveCalls, TRUE) /\ Returned(applyCalls, FALSE))
    /\ [](label = LblSaveError => Returned(saveCalls, FALSE))

\* The save succeeded and the apply failed: the apply error is shown.
C20_Witness ==
    /\ label = LblApplyError
    /\ Returned(saveCalls, TRUE) /\ Returned(applyCalls, FALSE)
    /\ calFile.status = "written"


(***************************************************************************)
(* C18.  The initial state is Point0 when the touchscreen was found and    *)
(* DeviceUnavailable otherwise; in DeviceUnavailable no record is ever     *)
(* read, no point recorded, no save or apply invoked, and the timer        *)
(* eventually requests the exit of the application.                        *)
(***************************************************************************)
C18_DeviceUnavailableTimesOut ==
    /\ IF calibrationFd >= 0
       THEN InPoint(0) /\ label = LblInstructions /\ ~timerArmed
       ELSE DeviceUnavailable /\ curCalPoint = NUM_CAL_POINTS
                /\ label = LblNoDevice /\ timerArmed
    /\ [](DeviceUnavailable =>
            /\ ~reading /\ nSamples = 0
            /\ points = <<>> /\ calibrationPoints = <<>>
            /\ saveCalls = <<>> /\ applyCalls = <<>>
            /\ label = LblNoDevice)
    /\ [][DeviceUnavailable =>
            /\ DeviceUnavailable'
            /\ exitRequested' /\ ~timerArmed'
            /\ UNCHANGED <<machine, Transients, backend, reading, nSamples>>]_vars
    /\ (DeviceUnavailable ~> exitRequested)

\* The touchscreen was not found and the timer has requested the exit.
C18_Witness ==
    /\ DeviceUnavailable /\ exitRequested /\ ~timerArmed
    /\ nSamples = 0 /\ ~reading


(***************************************************************************)
(* C13.  Whatever path applyCalibration returns by, the error handler      *)
(* installed in Xlib when it returns is the one that was installed when it *)
(* was called; its own handler is installed, with the previous one saved,  *)
(* before the property-replace request is issued.                          *)
(***************************************************************************)
C13_HandlerRestored ==
    /\ [](xcall.pc = "returned" => errorHandler = xcall.handlerAtCall)
    /\ [](xcall.pc = "changeProperty" =>
            /\ errorHandler = CalibrationErrorHandler
            /\ xcall.prevErrorHandler = xcall.handlerAtCall)
    /\ [](xcall.issued /\ xcall.pc # "returned" =>
            errorHandler = CalibrationErrorHandler)
    /\ [][errorHandler' # errorHandler =>
            xcall.pc \in {"setHandler", "restoreHandler"}]_vars

\* A call that issued the request has returned with Qt's handler back.
C13_Witness ==
    /\ xcall.pc = "returned" /\ xcall.issued
    /\ xcall.prevErrorHandler = QtErrorHandler
    /\ errorHandler = QtErrorHandler

(***************************************************************************)
(* C14.  applyCalibration returns true exactly when the property-replace   *)
(* request was issued and the error handler did not run between the reset  *)
(* of the flag and the restore of the handler; the flag is reset by every  *)
(* call that passes the length check, so an error of an earlier call does  *)
(* not fail a later one.                                                   *)
(***************************************************************************)
C14_SuccessIffIssuedAndNoError ==
    /\ [](xcall.pc = "returned" =>
            (xcall.result <=> (xcall.issued /\ ~xcall.fired)))
    /\ [](xcall.issued => Len(xcall.matrix) = 9)
    /\ [][(xcall.pc = "checkLength" /\ Len(xcall.matrix) = 9) =>
            ~xErrorOccurred']_vars
    /\ [](xcall.pc \in {"openDisplay", "setHandler"} => ~xErrorOccurred)
    /\ []((xcall.pc = "returned" /\ xcall.fired) => xErrorOccurred)

\* A call returned true after the handler had run during an earlier call.
C14_Witness ==
    /\ xcall.pc = "returned" /\ xcall.result
    /\ xcall.firedEarlier /\ ~xcall.fired
    /\ deviceMatrix = HalfRangeMatrix


(***************************************************************************)
(* C15.  With --apply the process only attempts to apply the persisted     *)
(* calibration: it exits with success exactly when that succeeded and with *)
(* failure otherwise, never resets the device to the default calibration   *)
(* and never constructs the window; with a missing or unreadable file it   *)
(* exits with failure and the device's matrix untouched.                   *)
(***************************************************************************)
WindowConstructed == label # NoLabel

C15_ApplyOnly ==
    /\ [](main.argv1 = "--apply" =>
            /\ main.pc \in {"start", "exited"}
            /\ main.default = "notAttempted"
            /\ ~WindowConstructed /\ nSamples = 0 /\ saveCalls = <<>>)
    /\ []((main.argv1 = "--apply" /\ main.pc = "exited") =>
            /\ main.existing \in {"ok", "failed"}
            /\ main.exitStatus = "EXIT_SUCCESS" <=> main.existing = "ok"
            /\ main.exitStatus = "EXIT_FAILURE" <=> main.existing = "failed")
    /\ []((main.argv1 = "--apply" /\ main.pc = "exited" /\ calFile.status # "written") =>
            /\ main.exitStatus = "EXIT_FAILURE"
            /\ deviceMatrix = IdentityMatrix /\ ~xErrorOccurred)

\* --apply without a persisted file: failure, nothing else done.
C15_Witness ==
    /\ main.argv1 = "--apply" /\ main.pc = "exited"
    /\ calFile = NoFile
    /\ main.exitStatus = "EXIT_FAILURE"
    /\ main.default = "notAttempted" /\ ~WindowConstructed

(***************************************************************************)
(* C16.  With --apply-or-calibrate the process exits with success, without *)
(* the default reset and without the window, when applying the persisted   *)
(* calibration succeeded, and goes on to the interactive flow (the default *)
(* reset, then the window) exactly when it failed.                         *)
(***************************************************************************)
C16_ApplyOrCalibrate ==
    /\ [][(main.argv1 = "--apply-or-calibrate" /\ main.pc = "start") =>
            /\ main'.existing \in {"ok", "failed"}
            /\ main'.existing = "ok" =>
                    main'.pc = "exited" /\ main'.exitStatus = "EXIT_SUCCESS"
            /\ main'.existing = "failed" =>
                    main'.pc = "applyDefault" /\ main'.exitStatus = "running"]_vars
    /\ []((main.argv1 = "--apply-or-calibrate" /\ main.existing = "ok") =>
            /\ main.pc = "exited" /\ main.exitStatus = "EXIT_SUCCESS"
            /\ main.default = "notAttempted" /\ ~WindowConstructed)
    /\ []((main.argv1 = "--apply-or-calibrate"
                /\ (main.default # "notAttempted" \/ WindowConstructed)) =>
            main.existing = "failed")

\* The persisted calibration could not be applied and a session is under way.
C16_Witness ==
    /\ main.argv1 = "--apply-or-calibrate" /\ main.existing = "failed"
    /\ main.pc = "exec" /\ InPoint(1) /\ nSamples = 2

(***************************************************************************)
(* C17.  The window is constructed only after the reset to the default     *)
(* calibration was attempted and succeeded; when the reset fails the       *)
(* process exits with failure and no session starts.                       *)
(***************************************************************************)
C17_DefaultResetFirst ==
    /\ []((WindowConstructed \/ main.pc \in {"construct", "exec"}) =>
            main.default = "ok")
    /\ [](main.default = "failed" =>
            /\ main.pc = "exited" /\ main.exitStatus = "EXIT_FAILURE"
            /\ ~WindowConstructed /\ nSamples = 0 /\ ~reading)
    /\ [][main.pc = "applyDefault" =>
            /\ main'.default \in {"ok", "failed"}
            /\ main'.default = "ok" => main'.pc = "construct"]_vars
    /\ [][main'.default # main.default => main.pc = "applyDefault"]_vars

\* The default reset failed: failure, no window.
C17_Witness ==
    /\ main.default = "failed" /\ main.pc = "exited"
    /\ main.exitStatus = "EXIT_FAILURE" /\ ~WindowConstructed
    /\ main.argv1 = "none"


(***************************************************************************)
(* C21.  findTouchScreen returns the handle of the first node, in          *)
(* enumeration order, that can be opened and reports the touchscreen's     *)
(* name, and -1 if there is none; when it returns, the only handle it      *)
(* opened that is still open is the one it returns, whatever descriptors   *)
(* open() handed out.                                                      *)
(***************************************************************************)
MatchingNodes(inputs) ==
    {k \in 1..Len(inputs) : inputs[k].openable /\ NameMatches(inputs[k].name)}

Least(S) == CHOOSE k \in S : \A m \in S : k <= m

FindReturned == find.pc = "returned"

C21_AsClaimed ==
    FindReturned =>
        LET matching == MatchingNodes(find.inputs)
        IN  IF matching = {}
            THEN find.result = -1 /\ find.held = {}
            ELSE /\ Len(find.opened) = Least(matching)
                 /\ find.result = find.opened[Least(matching)]
                 /\ find.held = {find.result}


(***************************************************************************)
(* C22.  Whenever the matrix is assembled (the first press-edge in Done)   *)
(* the accepted bounds have maxX - minX # 0 and maxY - minY # 0, so the    *)
(* divisions that produce the coefficients are defined and no commit       *)
(* traps.                                                                  *)
(***************************************************************************)
C22_AsClaimed ==
    /\ [][(InDone /\ PressEdge) =>
            /\ cal.maxX - cal.minX # 0
            /\ cal.maxY - cal.minY # 0]_vars
    /\ [](InDone => ~MatrixUndefined(cal))
    /\ [](~crashed)


(***************************************************************************)
(* C23.  Once the fourth point is finalized (Done, Error, reported) no     *)
(* sample changes the phase index, the sample window, which stays empty,   *)
(* or the stored bounds, and none appends a calibration point: the         *)
(* recorded points change only by being discarded, once, at the commit.    *)
(***************************************************************************)
Finalized == calibrationFd >= 0 /\ curCalPoint = NUM_CAL_POINTS

C23_TerminalForCollection ==
    /\ [](Finalized => (points = <<>> /\ (InDone \/ InError \/ InReported)))
    /\ [][Finalized =>
            /\ Finalized'
            /\ UNCHANGED <<curCalPoint, points, cal>>
            /\ \/ UNCHANGED calibrationPoints
               \/ /\ InDone /\ PressEdge /\ InReported'
                  /\ Len(calibrationPoints) = NUM_CAL_POINTS
                  /\ calibrationPoints' = <<>>]_vars
    /\ [][(Finalized /\ Delivered /\ ~(InDone /\ PressEdge)) =>
            UNCHANGED <<label, curCalPoint, points, calibrationPoints, cal,
                        calFile, deviceMatrix, saveCalls, applyCalls>>]_vars
    /\ [][(Finalized /\ ~InDone) => UNCHANGED calibrationPoints]_vars

\* The commit is over, its press released: nothing is left of the session
\* but the bounds.
C23_Witness ==
    /\ InReported /\ ~touchIsPressed /\ ~crashed
    /\ points = <<>> /\ calibrationPoints = <<>>
    /\ Len(saveCalls) = 1
    /\ nSamples = 10

(***************************************************************************)
(* C24.  For every delivered sample the handler sees a press-edge or a     *)
(* release-edge, never both, exactly when the delivered pressed value      *)
(* differs from the debounced press state, which equals the delivered      *)
(* value afterwards; so the edges alternate, starting with a press-edge.   *)
(***************************************************************************)
C24_EdgesAlternate ==
    /\ [][Delivered =>
            LET justPressed == TouchJustPressed(tmpPressed, touchIsPressed)
                justReleased == TouchJustReleased(tmpPressed, touchIsPressed)
            IN  /\ ~(justPressed /\ justReleased)
                /\ (justPressed \/ justReleased) <=> (tmpPressed # touchIsPressed)
                /\ justPressed <=> PressEdge
                /\ justReleased <=> ReleaseEdge
                /\ touchIsPressed' = tmpPressed
                /\ tmpPressed' = tmpPressed]_vars
    /\ [][~Delivered => UNCHANGED touchIsPressed]_vars
    /\ [](nSamples = 0 => ~touchIsPressed)
    /\ [][(Delivered /\ Len(calibrationPoints') > Len(calibrationPoints)) =>
            ReleaseEdge]_vars
    /\ [][(Delivered /\ (exitRequested' # exitRequested
                            \/ saveCalls' # saveCalls \/ crashed' # crashed)) =>
            PressEdge]_vars

\* Press, release, press: the second tap has begun.
C24_Witness ==
    /\ touchIsPressed /\ tmpPressed
    /\ curCalPoint = 1 /\ Len(calibrationPoints) = 1
    /\ nSamples = 3

====
